---- MODULE Spec2Model ----
(***************************************************************************)
(* A model of the flat vector index of the review-search backend           *)
(* (src/backend/src/flat_index.rs) and of the two request handlers that    *)
(* use it (src/backend/src/handler.rs, src/backend/src/main.rs).           *)
(*                                                                         *)
(* Files are sequences of bytes.  Integers are written little-endian as    *)
(* the code writes them, f32 values by their IEEE-754 bits.  The f32       *)
(* arithmetic of cosine_distance (sqrt, *, /, -) is computed with          *)
(* round-to-nearest-even on 24-bit significands.                           *)
(***************************************************************************)
EXTENDS Integers, Sequences, FiniteSets, TLC

(***************************************************************************)
(* Bounds of the model.                                                    *)
(***************************************************************************)
\* most records an index file is grown to (appends are refused beyond it)
MaxRecords == 3
\* largest top_k a direct search is called with
MaxTopK == 2
\* number of concurrent requests of the service
NumRequests == 2
\* most crashes of the process in one behaviour
MaxCrashes == 1
\* most files removed from outside in one behaviour
MaxEnvOps == 1

\* the vector dimensions the store is opened with (main.rs opens 384)
Dims == {1, 2}

(***************************************************************************)
(* f32 values.  A component of a vector is a small non-negative integer    *)
(* value or NaN; a distance is a multiple of 2^-24 (every result of        *)
(* 1.0 - sim with |sim| < 2 is one) or NaN.                                *)
(***************************************************************************)
Num(n) == [nan |-> FALSE, v |-> n]
NaN == [nan |-> TRUE, v |-> 0]

\* the vectors of dimension d that are appended and searched for: all 0/1
\* vectors, and the vector whose components are all NaN
Vectors(d) == [1..d -> {Num(0), Num(1)}] \cup {[i \in 1..d |-> NaN]}

\* the unit of distances: 1.0 is One units of 2^-24
One == 2^24

RECURSIVE Log2(_)
\* floor(log2 n), n >= 1
Log2(n) == IF n < 2 THEN 0 ELSE 1 + Log2(n \div 2)

(***************************************************************************)
(* byteorder: WriteBytesExt / ReadBytesExt with LittleEndian.              *)
(***************************************************************************)
RECURSIVE LEBytes(_, _)
\* the k little-endian bytes of the unsigned integer n
LEBytes(n, k) == IF k = 0 THEN <<>> ELSE <<n % 256>> \o LEBytes(n \div 256, k - 1)

RECURSIVE LEValue(_)
\* the unsigned integer of little-endian bytes
LEValue(bs) == IF bs = <<>> THEN 0 ELSE bs[1] + 256 * LEValue(Tail(bs))

write_u32(n) == LEBytes(n, 4)
write_u64(n) == LEBytes(n, 8)

\* write_f32: the IEEE-754 single-precision bits of x, little-endian.
\* sign 0; biased exponent 127 + e; fraction (x - 2^e) * 2^(23-e).
write_f32(x) ==
    IF x.nan THEN <<0, 0, 192, 127>>               \* f32::NAN = 0x7FC00000
    ELSE IF x.v = 0 THEN <<0, 0, 0, 0>>
    ELSE LET e == Log2(x.v)
             biased == 127 + e
             frac == (x.v - 2^e) * 2^(23 - e)
         IN  <<frac % 256, (frac \div 256) % 256,
               (frac \div 65536) + 128 * (biased % 2), biased \div 2>>

\* read_f32: the value of four little-endian bytes (sign bit clear).
\* Exponent 255 with a non-zero fraction is NaN; the values the model
\* stores are integers, so the exponent is at least 127.
read_f32(bs) ==
    LET biased == 2 * (bs[4] % 128) + (bs[3] \div 128)
        frac == bs[1] + 256 * bs[2] + 65536 * (bs[3] % 128)
    IN  IF biased = 255 /\ frac # 0 THEN NaN
        ELSE IF biased = 0 /\ frac = 0 THEN Num(0)
        ELSE Num((2^23 + frac) \div 2^(150 - biased))

(***************************************************************************)
(* f32 arithmetic.  A positive f32 is [m, e]: m * 2^e with                 *)
(* 2^23 <= m < 2^24.                                                       *)
(***************************************************************************)
\* round a significand q with a remainder: up when more than half, to even
\* on a tie; renormalise when the significand overflows
RoundF32(q, e, cmpHalf) ==
    LET up == cmpHalf > 0 \/ (cmpHalf = 0 /\ q % 2 = 1)
        r == IF up THEN q + 1 ELSE q
    IN  IF r = 2^24 THEN [m |-> 2^23, e |-> e + 1] ELSE [m |-> r, e |-> e]

Sign(x) == IF x > 0 THEN 1 ELSE IF x < 0 THEN -1 ELSE 0

\* the f32 of a positive integer below 2^24 (exact)
F32OfInt(n) == LET s == 23 - Log2(n) IN [m |-> n * 2^s, e |-> -s]

RECURSIVE SqrtBits(_, _, _)
\* binary digit-by-digit square root: extend root by one bit per step
\* (the radicand's further bit pairs are zero); [root, rem, k] with
\* root^2 + rem = n * 4^k
SqrtBits(root, rem, k) ==
    IF root >= 2^23 THEN [root |-> root, rem |-> rem, k |-> k]
    ELSE LET trial == 4 * root + 1
         IN  IF 4 * rem >= trial
             THEN SqrtBits(2 * root + 1, 4 * rem - trial, k + 1)
             ELSE SqrtBits(2 * root, 4 * rem, k + 1)

\* f32::sqrt of a positive integer below 2^24, correctly rounded
F32Sqrt(n) ==
    LET r0 == CHOOSE r \in 1..n : r * r <= n /\ (r + 1) * (r + 1) > n
        s == SqrtBits(r0, n - r0 * r0, 0)
    IN  \* sqrt lies in [root, root+1): above root + 1/2 iff rem > root
        RoundF32(s.root, -s.k, IF s.rem > s.root THEN 1 ELSE -1)

\* a * b of two positive f32, correctly rounded (48-bit product in 12-bit limbs)
F32Mul(a, b) ==
    LET h1 == a.m \div 4096
        l1 == a.m % 4096
        h2 == b.m \div 4096
        l2 == b.m % 4096
        c == l1 * l2
        t == h1 * l2 + l1 * h2 + (c \div 4096)
        hi == h1 * h2 + (t \div 4096)
        lo == (t % 4096) * 4096 + (c % 4096)
    IN  IF hi >= 2^23
        THEN RoundF32(hi, a.e + b.e + 24, Sign(lo - 2^23))
        ELSE RoundF32(2 * hi + (lo \div 2^23), a.e + b.e + 23,
                      Sign((lo % 2^23) - 2^22))

RECURSIVE DivBits(_, _, _, _)
\* long division: k more quotient bits of rem / d
DivBits(q, rem, d, k) ==
    IF k = 0 THEN [q |-> q, rem |-> rem]
    ELSE IF 2 * rem >= d THEN DivBits(2 * q + 1, 2 * rem - d, d, k - 1)
         ELSE DivBits(2 * q, 2 * rem, d, k - 1)

\* a / b of two positive f32, correctly rounded
F32Div(a, b) ==
    LET r == IF a.m >= b.m THEN DivBits(1, a.m - b.m, b.m, 23)
                           ELSE DivBits(0, a.m, b.m, 24)
        e == IF a.m >= b.m THEN a.e - b.e - 23 ELSE a.e - b.e - 24
    IN  RoundF32(r.q, e, Sign(2 * r.rem - b.m))

\* 1.0 - s for a positive f32 s < 2, in units of 2^-24, correctly rounded
\* (exact when s >= 1/2; the result lies in [1/2, 1] otherwise)
OneMinusF32(s) ==
    IF s.e >= -24 THEN One - s.m * 2^(s.e + 24)
    ELSE IF s.e < -53 THEN One
    ELSE LET k == -24 - s.e
             a == s.m \div 2^k
             f == s.m % 2^k
             lower == One - a - 1
         IN  IF f = 0 THEN One - a
             ELSE IF 2 * f < 2^k THEN One - a
             ELSE IF 2 * f > 2^k THEN lower
             ELSE IF lower % 2 = 0 THEN lower ELSE lower + 1

(***************************************************************************)
(* cosine helpers of FlatIndex::search.                                    *)
(***************************************************************************)
RECURSIVE SumProducts(_, _)
\* the sum of the products of small integer components (exact in f32)
SumProducts(a, b) ==
    IF a = <<>> \/ b = <<>> THEN 0
    ELSE a[1].v * b[1].v + SumProducts(Tail(a), Tail(b))

\* dot: NaN when a paired component is NaN
dot(a, b) ==
    LET n == IF Len(a) < Len(b) THEN Len(a) ELSE Len(b)
    IN  IF \E i \in 1..n : a[i].nan \/ b[i].nan THEN NaN
        ELSE Num(SumProducts(a, b))

\* norm: [nan, zero, f] with f the f32 of sqrt(dot(a, a)) when positive
norm(a) ==
    LET d == dot(a, a)
    IN  IF d.nan THEN [nan |-> TRUE, zero |-> FALSE, f |-> F32OfInt(1)]
        ELSE IF d.v = 0 THEN [nan |-> FALSE, zero |-> TRUE, f |-> F32OfInt(1)]
        ELSE [nan |-> FALSE, zero |-> FALSE, f |-> F32Sqrt(d.v)]

\* a distance: d units of 2^-24, or NaN
Dist(d) == [nan |-> FALSE, d |-> d]
DistNaN == [nan |-> TRUE, d |-> 0]

\* mutant: no test for a zero norm; 0.0 / 0.0 is NaN
cosine_distance_unguarded(a, b) ==
    LET na == norm(a)
        nb == norm(b)
        ab == dot(a, b)
    IN  IF na.zero \/ nb.zero \/ na.nan \/ nb.nan \/ ab.nan THEN DistNaN
        ELSE IF ab.v = 0 THEN Dist(One)
        ELSE Dist(OneMinusF32(F32Div(F32OfInt(ab.v), F32Mul(na.f, nb.f))))

cosine_distance(a, b) ==
    LET na == norm(a)
        nb == norm(b)
        ab == dot(a, b)
    IN  IF na.zero \/ nb.zero THEN Dist(One)
        ELSE IF na.nan \/ nb.nan \/ ab.nan THEN DistNaN
        ELSE IF ab.v = 0 THEN Dist(One)                     \* sim = 0.0
        ELSE Dist(OneMinusF32(F32Div(F32OfInt(ab.v), F32Mul(na.f, nb.f))))

\* cosine_distance on the vectors the callers use: <<a, b, distance>>, each
\* computed once
Distances ==
    {<<pr[1], pr[2], cosine_distance(pr[1], pr[2])>> :
        pr \in UNION {Vectors(d) \X Vectors(d) : d \in Dims}}

\* a.1.partial_cmp(&b.1).unwrap_or(Ordering::Equal) == Ordering::Less
IsLess(x, y) == ~x.dist.nan /\ ~y.dist.nan /\ x.dist.d < y.dist.d

RECURSIVE InsertTail(_, _)
\* insert x into s from the right, moving left while x is less
InsertTail(s, x) ==
    IF s = <<>> THEN <<x>>
    ELSE IF IsLess(x, s[Len(s)])
         THEN Append(InsertTail(SubSeq(s, 1, Len(s) - 1), x), s[Len(s)])
         ELSE Append(s, x)

RECURSIVE sort_by(_)
\* slice::sort_by on a short slice: a stable insertion sort, left to right
\* (the sorted prefix is bound to its value before the last element goes in)
sort_by(s) ==
    IF s = <<>> THEN <<>>
    ELSE CHOOSE r \in {InsertTail(sorted, s[Len(s)]) :
                           sorted \in {sort_by(SubSeq(s, 1, Len(s) - 1))}} : TRUE

(***************************************************************************)
(* The on-disk layout.                                                     *)
(***************************************************************************)
MAGIC == <<82, 86, 73, 88>>                                  \* b"RVIX"
VERSION == 1
HeaderLen == 12

Header(dim) == MAGIC \o write_u32(VERSION) \o write_u32(dim)

RecordLen(dim) == 8 + 4 * dim

RECURSIVE VecBytesReversed(_)
\* mutant: the components are written last to first
VecBytesReversed(vec) ==
    IF vec = <<>> THEN <<>> ELSE VecBytesReversed(Tail(vec)) \o write_f32(vec[1])

RECURSIVE VecBytes(_)
VecBytes(vec) == IF vec = <<>> THEN <<>> ELSE write_f32(vec[1]) \o VecBytes(Tail(vec))

\* the bytes append writes: the id, then the components in the order supplied
\* mutant: the record carries the id after the one read from the counter
RecordBytesNextId(id, vec) == write_u64(id + 1) \o VecBytes(vec)

RecordBytes(id, vec) == write_u64(id) \o VecBytes(vec)

\* the bytes of a file from offset pos (0-based) on; nothing past the end
From(bytes, pos) == IF pos >= Len(bytes) THEN <<>> ELSE SubSeq(bytes, pos + 1, Len(bytes))

\* the dim f32 values of a record's vector bytes
ReadVec(bs, dim) == [i \in 1..dim |-> read_f32(SubSeq(bs, 4 * i - 3, 4 * i))]

\* a file that does not exist
NoFile == [exists |-> FALSE, bytes |-> <<>>]
File(bytes) == [exists |-> TRUE, bytes |-> bytes]

(***************************************************************************)
(* FlatIndex::read_next_id, write_next_id, scan_next_id.                   *)
(***************************************************************************)
Ok(v) == [ok |-> TRUE, val |-> v, err |-> ""]
Err(e) == [ok |-> FALSE, val |-> 0, err |-> e]

read_next_id(m) ==
    IF ~m.exists THEN Err("NotFound")
    ELSE IF Len(m.bytes) < 8 THEN Err("UnexpectedEof")
    ELSE Ok(LEValue(SubSeq(m.bytes, 1, 8)))

\* File::create truncates (or creates) the sidecar; the value is written next
write_next_id_create == File(<<>>)
\* write_u64 at offset 0 of the file just created
write_next_id_write(m, next_id) == File(write_u64(next_id) \o From(m.bytes, 8))
write_next_id(next_id) == write_next_id_write(write_next_id_create, next_id)

RECURSIVE ScanCount(_, _, _)
\* the loop of scan_next_id over the bytes after the header: a short read of
\* the id ends the loop, a short read of the vector is an error
ScanCount(rest, dim, count) ==
    IF Len(rest) < 8 THEN Ok(count)
    ELSE IF Len(rest) < RecordLen(dim) THEN Err("UnexpectedEof")
    ELSE ScanCount(From(rest, RecordLen(dim)), dim, count + 1)

\* mutant: any byte left after the last whole record is an error
scan_next_id_strict(bytes, dim) ==
    IF (Len(bytes) - HeaderLen) % RecordLen(dim) # 0 THEN Err("UnexpectedEof")
    ELSE Ok((Len(bytes) - HeaderLen) \div RecordLen(dim) + 1)

\* mutant: the record count itself is taken for the next id
scan_next_id_count(bytes, dim) == ScanCount(From(bytes, HeaderLen), dim, 0)

scan_next_id(bytes, dim) ==
    LET r == ScanCount(From(bytes, HeaderLen), dim, 0)
    IN  IF r.ok THEN Ok(r.val + 1) ELSE r

(***************************************************************************)
(* The state.                                                              *)
(***************************************************************************)
VARIABLES
    index,          \* the index file: [exists, bytes]
    meta,           \* the counter sidecar "<index>.meta": [exists, bytes]
    jsonl,          \* src/data/reviews.jsonl: [exists, ids], one id per line
    handle,         \* the FlatIndex value: [open, dim]
    embedderLock,   \* holder of AppState.embedder's mutex (0: free)
    indexLock,      \* holder of AppState.index's mutex (0: free)
    pc,             \* where each caller is
    loc,            \* each caller's locals
    lastOp,         \* the last store call of the direct caller and its result
    retIds,         \* the ids successful appends returned, in return order
    crashLog,       \* where the direct caller was at each crash so far
    envOps          \* events from outside so far: files removed, I/O failures

vars == <<index, meta, jsonl, handle, embedderLock, indexLock, pc, loc,
          lastOp, retIds, crashLog, envOps>>

\* the direct caller of the store's three operations
Client == 0
\* the tasks of the service, one per request
Requests == 1..NumRequests
Procs == {Client} \cup Requests

NoHandle == [open |-> FALSE, dim |-> 0]
NoLoc == [req |-> "none", op |-> "none", vec |-> <<>>, k |-> 0, id |-> 0,
          done |-> 0, pos |-> 0, best |-> <<>>, res |-> Ok(0)]
NoOp == [op |-> "none", ok |-> TRUE, err |-> "", val |-> 0, vec |-> <<>>,
         k |-> 0, prev |-> "other"]

\* what an append remembers of the call before it: a successful
\* open_or_create and the path it took, or anything else
PrevKind(o) == IF o.ok /\ o.op \in {"create", "open", "rebuild"} THEN o.op ELSE "other"

\* the files of a store of dimension d holding the vectors vs with ids 1..n
RECURSIVE StoredRecords(_, _)
StoredRecords(vs, first) ==
    IF vs = <<>> THEN <<>>
    ELSE RecordBytes(first, vs[1]) \o StoredRecords(Tail(vs), first + 1)

Init ==
    /\ index = NoFile
    /\ meta = NoFile
    /\ jsonl = [exists |-> FALSE, ids |-> <<>>]
    /\ handle = NoHandle
    /\ embedderLock = 0
    /\ indexLock = 0
    /\ pc = [p \in Procs |-> "idle"]
    /\ loc = [p \in Procs |-> NoLoc]
    /\ lastOp = NoOp
    /\ retIds = <<>>
    /\ crashLog = <<>>
    /\ envOps = 0

(***************************************************************************)
(* FlatIndex::open_or_create (flat_index.rs 17-78), as one step: the       *)
(* files and the result it leaves.                                         *)
(***************************************************************************)
\* mutant: the stored dimension is compared before the version
ValidateHeaderDimFirst(bytes, dim) ==
    IF Len(bytes) < 4 THEN Err("UnexpectedEof")
    ELSE IF SubSeq(bytes, 1, 4) # MAGIC THEN Err("bad index magic")
    ELSE IF Len(bytes) < 12 THEN Err("UnexpectedEof")
    ELSE IF LEValue(SubSeq(bytes, 9, 12)) # dim THEN Err("dim mismatch with existing index")
    ELSE IF LEValue(SubSeq(bytes, 5, 8)) # VERSION THEN Err("unsupported index version")
    ELSE Ok(dim)

\* the validation of an existing file's header, in the code's order
ValidateHeader(bytes, dim) ==
    IF Len(bytes) < 4 THEN Err("UnexpectedEof")
    ELSE IF SubSeq(bytes, 1, 4) # MAGIC THEN Err("bad index magic")
    ELSE IF Len(bytes) < 8 THEN Err("UnexpectedEof")
    ELSE IF LEValue(SubSeq(bytes, 5, 8)) # VERSION THEN Err("unsupported index version")
    ELSE IF Len(bytes) < 12 THEN Err("UnexpectedEof")
    ELSE IF LEValue(SubSeq(bytes, 9, 12)) # dim THEN Err("dim mismatch with existing index")
    ELSE Ok(dim)

\* mutant: the sidecar is initialised to 1 on every successful open
open_or_create_reinit(idx, mt, dim) ==
    IF ~idx.exists
    THEN [index |-> File(Header(dim)), meta |-> write_next_id(1),
          res |-> Ok(dim), how |-> "create"]
    ELSE LET v == ValidateHeader(idx.bytes, dim)
         IN  [index |-> idx, meta |-> IF v.ok THEN write_next_id(1) ELSE mt,
              res |-> v, how |-> "open"]

\* mutant: a file whose header is refused is formatted anew before the error
\* is returned
open_or_create_repair(idx, mt, dim) ==
    IF ~idx.exists
    THEN [index |-> File(Header(dim)),
          meta |-> IF ~mt.exists THEN write_next_id(1) ELSE mt,
          res |-> Ok(dim), how |-> "create"]
    ELSE LET v == ValidateHeader(idx.bytes, dim)
         IN  IF ~v.ok THEN [index |-> File(Header(dim)), meta |-> write_next_id(1),
                            res |-> v, how |-> "open"]
             ELSE IF mt.exists THEN [index |-> idx, meta |-> mt, res |-> v, how |-> "open"]
             ELSE LET n == scan_next_id(idx.bytes, dim)
                  IN  IF ~n.ok THEN [index |-> idx, meta |-> mt, res |-> n, how |-> "rebuild"]
                      ELSE [index |-> idx, meta |-> write_next_id(n.val),
                            res |-> v, how |-> "rebuild"]

\* [index, meta, res, how]: the files after the call, its result, and the
\* path taken (create / open / rebuild)
open_or_create(idx, mt, dim) ==
    IF ~idx.exists
    THEN [index |-> File(Header(dim)),
          meta |-> IF ~mt.exists THEN write_next_id(1) ELSE mt,
          res |-> Ok(dim), how |-> "create"]
    ELSE LET v == ValidateHeader(idx.bytes, dim)
         IN  IF ~v.ok THEN [index |-> idx, meta |-> mt, res |-> v, how |-> "open"]
             ELSE IF mt.exists THEN [index |-> idx, meta |-> mt, res |-> v, how |-> "open"]
             ELSE LET n == scan_next_id(idx.bytes, dim)
                  IN  IF ~n.ok THEN [index |-> idx, meta |-> mt, res |-> n, how |-> "rebuild"]
                      ELSE [index |-> idx, meta |-> write_next_id(n.val),
                            res |-> v, how |-> "rebuild"]

OpenOrCreate(dim) ==
    /\ pc[Client] = "idle"
    /\ LET r == open_or_create(index, meta, dim)
       IN  /\ index' = r.index
           /\ meta' = r.meta
           /\ handle' = IF r.res.ok THEN [open |-> TRUE, dim |-> dim] ELSE NoHandle
           /\ lastOp' = [NoOp EXCEPT !.op = r.how, !.ok = r.res.ok, !.err = r.res.err,
                                     !.val = dim]
    /\ UNCHANGED <<jsonl, embedderLock, indexLock, pc, loc, retIds, crashLog, envOps>>

\* the FlatIndex value is dropped
Close ==
    /\ pc[Client] = "idle"
    /\ handle.open
    /\ handle' = NoHandle
    /\ lastOp' = [NoOp EXCEPT !.op = "close"]
    /\ UNCHANGED <<index, meta, jsonl, embedderLock, indexLock, pc, loc, retIds,
                   crashLog, envOps>>

(***************************************************************************)
(* The return of append or search to its caller: the direct caller records *)
(* the result; a request handler goes on to drop its guard.                *)
(***************************************************************************)
Return(p, r) ==
    /\ pc' = [pc EXCEPT ![p] = IF p = Client THEN "idle"
                               ELSE IF loc[p].req = "create" THEN "cd_unlock"
                               ELSE "gd_unlock"]
    /\ loc' = [loc EXCEPT ![p] = IF p = Client THEN NoLoc
                                 ELSE [loc[p] EXCEPT !.res = r]]
    /\ lastOp' = IF p = Client
                 THEN [op |-> loc[p].op, ok |-> r.ok, err |-> r.err, val |-> r.val,
                       vec |-> loc[p].vec, k |-> loc[p].k, prev |-> lastOp.prev]
                 ELSE lastOp
    /\ retIds' = IF r.ok /\ loc[p].op = "append" THEN Append(retIds, r.val) ELSE retIds

\* the number of whole records after the header
NumRecords(bytes, dim) == (Len(bytes) - HeaderLen) \div RecordLen(dim)

(***************************************************************************)
(* FlatIndex::append (flat_index.rs 84-111), one step per file operation.  *)
(***************************************************************************)
\* mutant: the length of the vector is not compared with dim
AppendCheckNone(p) ==
    /\ pc[p] = "a_check"
    /\ pc' = [pc EXCEPT ![p] = "a_read"]
    /\ UNCHANGED <<index, meta, jsonl, handle, embedderLock, indexLock, loc, lastOp,
                   retIds, crashLog, envOps>>

\* if vec.len() != self.dim
AppendCheck(p) ==
    /\ pc[p] = "a_check"
    /\ IF Len(loc[p].vec) # handle.dim
       THEN Return(p, Err("dimension mismatch"))
       ELSE /\ pc' = [pc EXCEPT ![p] = "a_read"]
            /\ UNCHANGED <<loc, lastOp, retIds>>
    /\ UNCHANGED <<index, meta, jsonl, handle, embedderLock, indexLock, crashLog, envOps>>

\* mutant: the id is taken from the counter and the counter advanced at once
AppendReadNextIdEager(p) ==
    /\ pc[p] = "a_read"
    /\ LET r == read_next_id(meta)
       IN  IF ~r.ok
           THEN Return(p, r) /\ UNCHANGED meta
           ELSE /\ pc' = [pc EXCEPT ![p] = "a_write"]
                /\ loc' = [loc EXCEPT ![p].id = r.val]
                /\ meta' = write_next_id(r.val + 1)
                /\ UNCHANGED <<lastOp, retIds>>
    /\ UNCHANGED <<index, jsonl, handle, embedderLock, indexLock, crashLog, envOps>>

\* let id = Self::read_next_id(&self.meta_path)?
AppendReadNextId(p) ==
    /\ pc[p] = "a_read"
    /\ LET r == read_next_id(meta)
       IN  IF ~r.ok
           THEN Return(p, r)
           ELSE /\ pc' = [pc EXCEPT ![p] = "a_write"]
                /\ loc' = [loc EXCEPT ![p].id = r.val]
                /\ UNCHANGED <<lastOp, retIds>>
    /\ UNCHANGED <<index, meta, jsonl, handle, embedderLock, indexLock, crashLog, envOps>>

\* mutant: the file is opened with create + truncate
AppendBytesTruncate(idx, bs) == File(bs)

\* bytes written at the end of the index file, opened with create + append
AppendBytes(idx, bs) == File(idx.bytes \o bs)

\* w.flush(): the buffered record reaches the file in one write
AppendWriteRecord(p) ==
    /\ pc[p] = "a_write"
    /\ index' = AppendBytes(index, RecordBytes(loc[p].id, loc[p].vec))
    /\ pc' = [pc EXCEPT ![p] = "a_create"]
    /\ UNCHANGED <<meta, jsonl, handle, embedderLock, indexLock, loc, lastOp, retIds,
                   crashLog, envOps>>

\* where a record's write can be cut: inside the id, after it, and between
\* two components
TornPoints(dim) == {n \in 1..(RecordLen(dim) - 1) : n % 4 = 0}

\* w.flush(): the write is not atomic; only the first n bytes are in the file yet
AppendWritePart(p) ==
    /\ pc[p] = "a_write"
    /\ \E n \in TornPoints(handle.dim) :
          /\ index' = AppendBytes(index,
                         SubSeq(RecordBytes(loc[p].id, loc[p].vec), 1, n))
          /\ loc' = [loc EXCEPT ![p].done = n]
    /\ pc' = [pc EXCEPT ![p] = "a_rest"]
    /\ UNCHANGED <<meta, jsonl, handle, embedderLock, indexLock, lastOp, retIds,
                   crashLog, envOps>>

\* the rest of the record reaches the file
AppendWriteRest(p) ==
    /\ pc[p] = "a_rest"
    /\ index' = AppendBytes(index, From(RecordBytes(loc[p].id, loc[p].vec), loc[p].done))
    /\ loc' = [loc EXCEPT ![p].done = 0]
    /\ pc' = [pc EXCEPT ![p] = "a_create"]
    /\ UNCHANGED <<meta, jsonl, handle, embedderLock, indexLock, lastOp, retIds,
                   crashLog, envOps>>

\* write_next_id: File::create(meta_path)
BumpCreate(p) ==
    /\ pc[p] = "a_create"
    /\ meta' = write_next_id_create
    /\ pc' = [pc EXCEPT ![p] = "a_bump"]
    /\ UNCHANGED <<index, jsonl, handle, embedderLock, indexLock, loc, lastOp, retIds,
                   crashLog, envOps>>

\* write_next_id: f.write_u64(id + 1); then append returns Ok(id)
BumpWrite(p) ==
    /\ pc[p] = "a_bump"
    /\ meta' = write_next_id_write(meta, loc[p].id + 1)
    /\ Return(p, Ok(loc[p].id))
    /\ UNCHANGED <<index, jsonl, handle, embedderLock, indexLock, crashLog, envOps>>

AppendSteps(p) ==
    \/ AppendCheck(p)
    \/ AppendReadNextId(p)
    \/ AppendWriteRecord(p)
    \/ BumpCreate(p)
    \/ BumpWrite(p)

\* the record's write seen from outside append: by another task, or by a crash
TornWriteSteps(p) ==
    \/ AppendWritePart(p)
    \/ AppendWriteRest(p)

(***************************************************************************)
(* FlatIndex::search (flat_index.rs 113-181), one step per record read.    *)
(***************************************************************************)
\* mutant: top_k == 0 is refused
SearchCheckZeroRefused(p) ==
    /\ pc[p] = "s_check"
    /\ IF Len(loc[p].vec) # handle.dim THEN Return(p, Err("dimension mismatch"))
       ELSE IF loc[p].k = 0 THEN Return(p, Err("top_k is zero"))
       ELSE /\ pc' = [pc EXCEPT ![p] = "s_open"]
            /\ UNCHANGED <<loc, lastOp, retIds>>
    /\ UNCHANGED <<index, meta, jsonl, handle, embedderLock, indexLock, crashLog, envOps>>

\* mutant: the top_k == 0 shortcut comes before the dimension check
SearchCheckTopKFirst(p) ==
    /\ pc[p] = "s_check"
    /\ IF loc[p].k = 0 THEN Return(p, Ok(<<>>))
       ELSE IF Len(loc[p].vec) # handle.dim THEN Return(p, Err("dimension mismatch"))
       ELSE /\ pc' = [pc EXCEPT ![p] = "s_open"]
            /\ UNCHANGED <<loc, lastOp, retIds>>
    /\ UNCHANGED <<index, meta, jsonl, handle, embedderLock, indexLock, crashLog, envOps>>

\* the dimension check, then the top_k == 0 shortcut
SearchCheck(p) ==
    /\ pc[p] = "s_check"
    /\ IF Len(loc[p].vec) # handle.dim THEN Return(p, Err("dimension mismatch"))
       ELSE IF loc[p].k = 0 THEN Return(p, Ok(<<>>))
       ELSE /\ pc' = [pc EXCEPT ![p] = "s_open"]
            /\ UNCHANGED <<loc, lastOp, retIds>>
    /\ UNCHANGED <<index, meta, jsonl, handle, embedderLock, indexLock, crashLog, envOps>>

\* File::open, seek past the header, an empty best
SearchOpen(p) ==
    /\ pc[p] = "s_open"
    /\ IF ~index.exists THEN Return(p, Err("NotFound"))
       ELSE /\ pc' = [pc EXCEPT ![p] = "s_scan"]
            /\ loc' = [loc EXCEPT ![p].pos = HeaderLen, ![p].best = <<>>]
            /\ UNCHANGED <<lastOp, retIds>>
    /\ UNCHANGED <<index, meta, jsonl, handle, embedderLock, indexLock, crashLog, envOps>>

\* "insert into best" (flat_index.rs 167-177)
InsertBest(best, e, top_k) ==
    IF Len(best) < top_k THEN sort_by(Append(best, e))
    ELSE IF best = <<>> THEN best
    ELSE IF IsLess(e, best[Len(best)])
         THEN sort_by(Append(SubSeq(best, 1, Len(best) - 1), e))
         ELSE best

\* one turn of the loop on the bytes from pos: [end, res, pos, best]
ScanRecord(bytes, dim, query, top_k, pos, best) ==
    LET rest == From(bytes, pos)
    IN  IF Len(rest) < 8
        THEN [end |-> TRUE, res |-> Ok(best), pos |-> pos, best |-> best]
        ELSE IF Len(rest) < RecordLen(dim)
        THEN [end |-> TRUE, res |-> Err("UnexpectedEof"), pos |-> pos, best |-> best]
        ELSE LET id == LEValue(SubSeq(rest, 1, 8))
                 vec == ReadVec(SubSeq(rest, 9, RecordLen(dim)), dim)
                 known == {t \in Distances : t[1] = query /\ t[2] = vec}
                 dist == IF known # {} THEN (CHOOSE t \in known : TRUE)[3]
                         ELSE cosine_distance(query, vec)
             IN  \* the record's entry is bound to its value, then inserted
                 CHOOSE r \in {[end |-> FALSE, res |-> Ok(0),
                                pos |-> pos + RecordLen(dim),
                                best |-> InsertBest(best, e, top_k)] :
                                   e \in {[id |-> id, dist |-> dist]}} : TRUE

SearchScan(p) ==
    /\ pc[p] = "s_scan"
    /\ LET r == ScanRecord(index.bytes, handle.dim, loc[p].vec, loc[p].k,
                           loc[p].pos, loc[p].best)
       IN  IF r.end THEN Return(p, r.res)
           ELSE /\ loc' = [loc EXCEPT ![p].pos = r.pos, ![p].best = r.best]
                /\ UNCHANGED <<pc, lastOp, retIds>>
    /\ UNCHANGED <<index, meta, jsonl, handle, embedderLock, indexLock, crashLog, envOps>>

SearchSteps(p) ==
    \/ SearchCheck(p)
    \/ SearchOpen(p)
    \/ SearchScan(p)

(***************************************************************************)
(* The direct caller: the store's operations called one after another.     *)
(***************************************************************************)
AllVectors == UNION {Vectors(d) : d \in Dims}

CallAppend(v) ==
    /\ pc[Client] = "idle"
    /\ handle.open
    /\ Len(index.bytes) < HeaderLen + MaxRecords * RecordLen(handle.dim)
    /\ pc' = [pc EXCEPT ![Client] = "a_check"]
    /\ loc' = [loc EXCEPT ![Client] = [NoLoc EXCEPT !.op = "append", !.vec = v]]
    /\ lastOp' = [NoOp EXCEPT !.op = "call", !.prev = PrevKind(lastOp)]
    /\ UNCHANGED <<index, meta, jsonl, handle, embedderLock, indexLock, retIds,
                   crashLog, envOps>>

CallSearch(q, top_k) ==
    /\ pc[Client] = "idle"
    /\ handle.open
    /\ pc' = [pc EXCEPT ![Client] = "s_check"]
    /\ loc' = [loc EXCEPT ![Client] = [NoLoc EXCEPT !.op = "search", !.vec = q, !.k = top_k]]
    /\ lastOp' = [NoOp EXCEPT !.op = "call"]
    /\ UNCHANGED <<index, meta, jsonl, handle, embedderLock, indexLock, retIds,
                   crashLog, envOps>>

\* the calls that open, close and grow the store, and append's steps
Writes ==
    \/ \E d \in Dims : OpenOrCreate(d)
    \/ Close
    \/ \E v \in AllVectors : CallAppend(v)
    \/ AppendSteps(Client)

Next ==
    \/ Writes
    \/ \E q \in AllVectors, k \in 0..MaxTopK : CallSearch(q, k)
    \/ SearchSteps(Client)

Spec == Init /\ [][Next]_vars

(***************************************************************************)
(* The files removed from outside while no store is open (the sidecar, as  *)
(* in the counter-recovery scenario, or the index file).                   *)
(***************************************************************************)
DeleteSidecar ==
    /\ pc[Client] = "idle"
    /\ ~handle.open
    /\ meta.exists
    /\ envOps < MaxEnvOps
    /\ meta' = NoFile
    /\ envOps' = envOps + 1
    /\ lastOp' = [NoOp EXCEPT !.op = "rm_meta"]
    /\ UNCHANGED <<index, jsonl, handle, embedderLock, indexLock, pc, loc, retIds, crashLog>>

DeleteIndex ==
    /\ pc[Client] = "idle"
    /\ ~handle.open
    /\ index.exists
    /\ envOps < MaxEnvOps
    /\ index' = NoFile
    /\ envOps' = envOps + 1
    /\ lastOp' = [NoOp EXCEPT !.op = "rm_index"]
    /\ UNCHANGED <<meta, jsonl, handle, embedderLock, indexLock, pc, loc, retIds, crashLog>>

\* searches change no file and are left out
NextEnv ==
    \/ Writes
    \/ DeleteSidecar
    \/ DeleteIndex

SpecEnv == Init /\ [][NextEnv]_vars

(***************************************************************************)
(* A crash of the process inside a store call: what reached the files      *)
(* stays, the FlatIndex value and the call are gone.                       *)
(***************************************************************************)
Crash ==
    /\ pc[Client] # "idle"
    /\ Len(crashLog) < MaxCrashes
    /\ crashLog' = Append(crashLog, [pc |-> pc[Client], id |-> loc[Client].id])
    /\ pc' = [pc EXCEPT ![Client] = "idle"]
    /\ loc' = [loc EXCEPT ![Client] = NoLoc]
    /\ handle' = NoHandle
    /\ lastOp' = [NoOp EXCEPT !.op = "crash"]
    /\ UNCHANGED <<index, meta, jsonl, embedderLock, indexLock, retIds, envOps>>

\* one vector of each length: the components play no part in a crash
FoundVec(d) == [i \in 1..d |-> Num(1)]

NextCrash ==
    \/ \E d \in Dims : OpenOrCreate(d)
    \/ Close
    \/ \E d \in Dims : CallAppend(FoundVec(d))
    \/ AppendSteps(Client)
    \/ Crash

SpecCrash == Init /\ [][NextCrash]_vars

(***************************************************************************)
(* open_or_create on whatever file is found at the path: a header with     *)
(* another magic tag, version or dimension, whole records, a last record   *)
(* cut short, with or without a sidecar.                                   *)
(***************************************************************************)
\* a magic tag that is not MAGIC
ForeignMagic == <<82, 86, 73, 89>>
InitFiles ==
    \E d \in Dims : \E magic \in {MAGIC, ForeignMagic} :
    \E ver \in {VERSION, VERSION + 1} : \E n \in 0..(MaxRecords - 1) :
    \E frag \in 0..(RecordLen(d) - 1) : \E hasMeta \in BOOLEAN :
        /\ index = File(magic \o write_u32(ver) \o write_u32(d)
                         \o StoredRecords([i \in 1..n |-> FoundVec(d)], 1)
                         \o SubSeq(RecordBytes(n + 1, FoundVec(d)), 1, frag))
        /\ meta = IF hasMeta THEN write_next_id(n + 1) ELSE NoFile
        /\ jsonl = [exists |-> FALSE, ids |-> <<>>]
        /\ handle = NoHandle
        /\ embedderLock = 0
        /\ indexLock = 0
        /\ pc = [p \in Procs |-> "idle"]
        /\ loc = [p \in Procs |-> NoLoc]
        /\ lastOp = NoOp
        /\ retIds = <<>>
        /\ crashLog = <<>>
        /\ envOps = 0

SpecFiles == InitFiles /\ [][Writes]_vars

(***************************************************************************)
(* What the claims speak of.                                               *)
(***************************************************************************)
RECURSIVE FullScan(_, _)
\* a full scan of the record bytes: the whole records, in file order
FullScan(rest, dim) ==
    IF Len(rest) < RecordLen(dim) THEN <<>>
    ELSE <<[id |-> LEValue(SubSeq(rest, 1, 8)),
            vec |-> ReadVec(SubSeq(rest, 9, RecordLen(dim)), dim)]>>
         \o FullScan(From(rest, RecordLen(dim)), dim)

\* the records of the index file of the open store
Records == FullScan(From(index.bytes, HeaderLen), handle.dim)

Min(a, b) == IF a < b THEN a ELSE b

\* x is at most y as numbers (never with a NaN)
DistLeq(x, y) == ~x.nan /\ ~y.nan /\ x.d <= y.d
DistLt(x, y) == ~x.nan /\ ~y.nan /\ x.d < y.d

\* the direct caller's last call was a successful op
Did(op) == lastOp.op = op /\ lastOp.ok

\* C1: on a freshly created store, with any closes and reopens in between,
\* the i-th successful append returns i.
C1_MonotonicIds == \A i \in 1..Len(retIds) : retIds[i] = i

\* an append right after a reopen of the existing store returned the second id or a later one
C1_Witness ==
    /\ Did("append")
    /\ lastOp.prev = "open"
    /\ Len(retIds) >= 2
    /\ lastOp.val = Len(retIds)

\* C6: after a successful append(v) that returned id, the last record a full
\* scan finds has that id and the components of v, in order.
C6_RoundTrip ==
    Did("append") =>
        /\ Len(Records) >= 1
        /\ Records[Len(Records)] = [id |-> lastOp.val, vec |-> lastOp.vec]

\* an append of [1, 0] as the second record has returned
C6_Witness ==
    /\ Did("append")
    /\ lastOp.vec = <<Num(1), Num(0)>>
    /\ lastOp.val = 2

\* the records of the store with their distances to query q, in file order
Scored(q) ==
    [i \in 1..Len(Records) |->
        [id |-> Records[i].id, dist |-> cosine_distance(q, Records[i].vec)]]

\* record a of S ranks before record b: a smaller distance, or an equal one
\* and earlier in the file
RanksBefore(S, a, b) ==
    \/ DistLt(S[a].dist, S[b].dist)
    \/ (DistLeq(S[a].dist, S[b].dist) /\ DistLeq(S[b].dist, S[a].dist) /\ a < b)

\* R is the first min(top_k, N) entries of S sorted ascending by distance,
\* ties in file order
IsTopK(R, S, top_k) ==
    /\ Len(R) = Min(top_k, Len(S))
    /\ \E f \in [1..Len(R) -> 1..Len(S)] :
          /\ \A i \in 1..Len(R) : R[i] = S[f[i]]
          /\ \A i, j \in 1..Len(R) : i < j => RanksBefore(S, f[i], f[j])
          /\ \A x \in 1..Len(S) :
                (\A i \in 1..Len(R) : f[i] # x) =>
                    \A i \in 1..Len(R) : RanksBefore(S, f[i], x)

\* no record of the store has a NaN distance to q
AllNumeric(q) == \A i \in 1..Len(Records) : ~Scored(q)[i].dist.nan

\* the store holds [1,0], [0,1], [1,1] in that order and was searched for
\* [1,0] with top_k = 2
IsExampleSearch ==
    /\ Did("search")
    /\ lastOp.k = 2
    /\ lastOp.vec = <<Num(1), Num(0)>>
    /\ [i \in 1..Len(Records) |-> Records[i].vec]
         = << <<Num(1), Num(0)>>, <<Num(0), Num(1)>>, <<Num(1), Num(1)>> >>

\* C7: a successful search with top_k > 0 returns the first min(top_k, N)
\* records in ascending order of distance, ties in file order; the example
\* search returns ids 1 then 3.
C7_TopK ==
    /\ (Did("search") /\ lastOp.k > 0) =>
            IsTopK(lastOp.val, Scored(lastOp.vec), lastOp.k)
    /\ IsExampleSearch => [i \in 1..2 |-> lastOp.val[i].id] = <<1, 3>>

\* C7 where every distance is a number: the ranking the claim states
C7_TopKNumeric ==
    /\ (Did("search") /\ lastOp.k > 0 /\ AllNumeric(lastOp.vec)) =>
            IsTopK(lastOp.val, Scored(lastOp.vec), lastOp.k)
    /\ IsExampleSearch => [i \in 1..2 |-> lastOp.val[i].id] = <<1, 3>>

\* a list of hits in ascending order of distance
IsAscending(R) == \A i, j \in 1..Len(R) : i < j => DistLeq(R[i].dist, R[j].dist)

\* C8: a successful search with top_k > 0 returns min(top_k, N) hits in
\* ascending order of distance, none on a store without records.
C8_SortedLength ==
    (Did("search") /\ lastOp.k > 0) =>
        /\ IsAscending(lastOp.val)
        /\ Len(lastOp.val) = Min(lastOp.k, Len(Records))
        /\ (Len(Records) = 0 => lastOp.val = <<>>)

\* C8 where every distance is a number
C8_SortedLengthNumeric ==
    (Did("search") /\ lastOp.k > 0 /\ AllNumeric(lastOp.vec)) =>
        /\ IsAscending(lastOp.val)
        /\ Len(lastOp.val) = Min(lastOp.k, Len(Records))
        /\ (Len(Records) = 0 => lastOp.val = <<>>)

\* the value in the sidecar
NextId == read_next_id(meta).val

C10_FreshStore ==
    /\ Did("create") =>
          /\ index = File(Header(handle.dim))
          /\ Len(index.bytes) = 12
          /\ meta = File(write_u64(1))
    /\ (Did("append") /\ lastOp.prev = "create") => lastOp.val = 1

(***************************************************************************)
(* The service (main.rs, handler.rs): main has opened the store; each      *)
(* request is a task running create_data or get_data once.  Both take      *)
(* AppState.embedder's mutex for the embedding and AppState.index's mutex  *)
(* for the store call.                                                     *)
(***************************************************************************)
\* let top_k: usize = 10
SvcTopK == 10

\* what the embedder returns for a text: a vector of the model's dimension
EmbedVectors(d) == [1..d -> {Num(0), Num(1)}]

\* mutant: lock().await returns at once, whoever holds the mutex
UnlockedAlways(m) == TRUE

\* tokio's Mutex: lock().await returns once nobody holds it
Unlocked(m) == m = 0

\* the handler returns its response
Respond(p) ==
    /\ pc' = [pc EXCEPT ![p] = "done"]
    /\ loc' = [loc EXCEPT ![p] = NoLoc]

\* the store before the service starts: dimension d, the records of the
\* create_data requests served so far, and their lines in the JSONL file
InitSvc ==
    \E d \in Dims : \E n \in 0..1 : \E vs \in [1..n -> EmbedVectors(d)] :
        /\ index = File(Header(d) \o StoredRecords(vs, 1))
        /\ meta = write_next_id(n + 1)
        /\ jsonl = [exists |-> n > 0, ids |-> [i \in 1..n |-> i]]
        /\ handle = [open |-> TRUE, dim |-> d]
        /\ embedderLock = 0
        /\ indexLock = 0
        /\ pc = [p \in Procs |-> "idle"]
        /\ loc = [p \in Procs |-> NoLoc]
        /\ lastOp = NoOp
        /\ retIds = <<>>
        /\ crashLog = <<>>
        /\ envOps = 0

\* create_data: the checks of the payload (handler.rs 191-229)
CdStart(p, valid) ==
    /\ pc[p] = "idle"
    /\ IF valid
       THEN /\ pc' = [pc EXCEPT ![p] = "cd_embed_lock"]
            /\ loc' = [loc EXCEPT ![p].req = "create"]
       ELSE Respond(p)
    /\ UNCHANGED <<index, meta, jsonl, handle, embedderLock, indexLock, lastOp,
                   retIds, crashLog, envOps>>

CdLockEmbedder(p) ==
    /\ pc[p] = "cd_embed_lock"
    /\ Unlocked(embedderLock)
    /\ embedderLock' = p
    /\ pc' = [pc EXCEPT ![p] = "cd_embed"]
    /\ UNCHANGED <<index, meta, jsonl, handle, indexLock, loc, lastOp, retIds,
                   crashLog, envOps>>

\* embedder.embed succeeds with a vector or fails; the guard is dropped
CdEmbed(p, ok, v) ==
    /\ pc[p] = "cd_embed"
    /\ embedderLock' = 0
    /\ IF ok
       THEN /\ pc' = [pc EXCEPT ![p] = "cd_index_lock"]
            /\ loc' = [loc EXCEPT ![p].vec = v]
       ELSE Respond(p)
    /\ UNCHANGED <<index, meta, jsonl, handle, indexLock, lastOp, retIds,
                   crashLog, envOps>>

CdLockIndex(p) ==
    /\ pc[p] = "cd_index_lock"
    /\ Unlocked(indexLock)
    /\ indexLock' = p
    /\ pc' = [pc EXCEPT ![p] = "cd_dim"]
    /\ UNCHANGED <<index, meta, jsonl, handle, embedderLock, loc, lastOp, retIds,
                   crashLog, envOps>>

\* if index.dim() != embedding_vec.len(), else index.append(&embedding_vec)
CdDim(p) ==
    /\ pc[p] = "cd_dim"
    /\ IF handle.dim # Len(loc[p].vec)
       THEN /\ indexLock' = 0
            /\ Respond(p)
       ELSE /\ pc' = [pc EXCEPT ![p] = "a_check"]
            /\ loc' = [loc EXCEPT ![p].op = "append"]
            /\ UNCHANGED indexLock
    /\ UNCHANGED <<index, meta, jsonl, handle, embedderLock, lastOp, retIds,
                   crashLog, envOps>>

\* mutant: the result of append is not looked at; the line is written anyway
CdUnlockAnyResult(p) ==
    /\ pc[p] = "cd_unlock"
    /\ indexLock' = 0
    /\ pc' = [pc EXCEPT ![p] = "cd_jsonl"]
    /\ loc' = [loc EXCEPT ![p].id = loc[p].res.val]
    /\ UNCHANGED <<index, meta, jsonl, handle, embedderLock, lastOp, retIds,
                   crashLog, envOps>>

\* append has returned: the guard is dropped, an error is the response
CdUnlock(p) ==
    /\ pc[p] = "cd_unlock"
    /\ indexLock' = 0
    /\ IF loc[p].res.ok
       THEN /\ pc' = [pc EXCEPT ![p] = "cd_jsonl"]
            /\ loc' = [loc EXCEPT ![p].id = loc[p].res.val]
       ELSE Respond(p)
    /\ UNCHANGED <<index, meta, jsonl, handle, embedderLock, lastOp, retIds,
                   crashLog, envOps>>

\* the line with the id is appended to the JSONL file
CdWriteJsonl(p) ==
    /\ pc[p] = "cd_jsonl"
    /\ jsonl' = [exists |-> TRUE, ids |-> Append(jsonl.ids, loc[p].id)]
    /\ Respond(p)
    /\ UNCHANGED <<index, meta, handle, embedderLock, indexLock, lastOp, retIds,
                   crashLog, envOps>>

create_data(p) ==
    \/ \E valid \in BOOLEAN : CdStart(p, valid)
    \/ CdLockEmbedder(p)
    \/ \E ok \in BOOLEAN : \E v \in EmbedVectors(handle.dim) : CdEmbed(p, ok, v)
    \/ CdLockIndex(p)
    \/ CdDim(p)
    \/ AppendSteps(p)
    \/ CdUnlock(p)
    \/ CdWriteJsonl(p)

\* get_data: the early returns before the embedding (handler.rs 62-123)
GdStart(p, emptyQuery) ==
    /\ pc[p] = "idle"
    /\ IF ~jsonl.exists \/ emptyQuery \/ ~index.exists
       THEN Respond(p)
       ELSE /\ pc' = [pc EXCEPT ![p] = "gd_embed_lock"]
            /\ loc' = [loc EXCEPT ![p].req = "get"]
    /\ UNCHANGED <<index, meta, jsonl, handle, embedderLock, indexLock, lastOp,
                   retIds, crashLog, envOps>>

GdLockEmbedder(p) ==
    /\ pc[p] = "gd_embed_lock"
    /\ Unlocked(embedderLock)
    /\ embedderLock' = p
    /\ pc' = [pc EXCEPT ![p] = "gd_embed"]
    /\ UNCHANGED <<index, meta, jsonl, handle, indexLock, loc, lastOp, retIds,
                   crashLog, envOps>>

GdEmbed(p, ok, v) ==
    /\ pc[p] = "gd_embed"
    /\ embedderLock' = 0
    /\ IF ok
       THEN /\ pc' = [pc EXCEPT ![p] = "gd_index_lock"]
            /\ loc' = [loc EXCEPT ![p].vec = v]
       ELSE Respond(p)
    /\ UNCHANGED <<index, meta, jsonl, handle, indexLock, lastOp, retIds,
                   crashLog, envOps>>

GdLockIndex(p) ==
    /\ pc[p] = "gd_index_lock"
    /\ Unlocked(indexLock)
    /\ indexLock' = p
    /\ pc' = [pc EXCEPT ![p] = "gd_dim"]
    /\ UNCHANGED <<index, meta, jsonl, handle, embedderLock, loc, lastOp, retIds,
                   crashLog, envOps>>

\* if index.dim() != qvec.len(), else index.search(qvec, top_k)
GdDim(p) ==
    /\ pc[p] = "gd_dim"
    /\ IF handle.dim # Len(loc[p].vec)
       THEN /\ indexLock' = 0
            /\ Respond(p)
       ELSE /\ pc' = [pc EXCEPT ![p] = "s_check"]
            /\ loc' = [loc EXCEPT ![p].op = "search", ![p].k = SvcTopK]
            /\ UNCHANGED indexLock
    /\ UNCHANGED <<index, meta, jsonl, handle, embedderLock, lastOp, retIds,
                   crashLog, envOps>>

\* mutant: the response is returned with the guard still held
GdUnlockLeak(p) ==
    /\ pc[p] = "gd_unlock"
    /\ Respond(p)
    /\ UNCHANGED <<index, meta, jsonl, handle, embedderLock, indexLock, lastOp, retIds,
                   crashLog, envOps>>

\* search has returned: the guard is dropped, the hits become the response
GdUnlock(p) ==
    /\ pc[p] = "gd_unlock"
    /\ indexLock' = 0
    /\ Respond(p)
    /\ UNCHANGED <<index, meta, jsonl, handle, embedderLock, lastOp, retIds,
                   crashLog, envOps>>

get_data(p) ==
    \/ \E emptyQuery \in BOOLEAN : GdStart(p, emptyQuery)
    \/ GdLockEmbedder(p)
    \/ \E ok \in BOOLEAN : \E v \in EmbedVectors(handle.dim) : GdEmbed(p, ok, v)
    \/ GdLockIndex(p)
    \/ GdDim(p)
    \/ SearchSteps(p)
    \/ GdUnlock(p)

\* the requests are served concurrently; another task can see the index
\* file while a record is being written
NextSvc == \E p \in Requests : create_data(p) \/ TornWriteSteps(p) \/ get_data(p)

SpecSvc == InitSvc /\ [][NextSvc]_vars

\* the ids of the records, in file order
StoredIds == [i \in 1..Len(Records) |-> Records[i].id]

StrictlyIncreasing(ids) == \A i, j \in 1..Len(ids) : i < j => ids[i] < ids[j]

\* every crash so far hit append after the record was written and flushed
\* and before write_next_id touched the sidecar
CrashedAfterFlush ==
    /\ crashLog # <<>>
    /\ \A i \in 1..Len(crashLog) : crashLog[i].pc = "a_create"

\* C2: after a crash between the record's flush and the counter's update,
\* the reopened store's next append returns an id above every stored id, and
\* the stored ids stay strictly increasing.
C2_CrashRecovery ==
    (CrashedAfterFlush /\ handle.open) =>
        /\ StrictlyIncreasing(StoredIds)
        /\ Did("append") =>
              \A i \in 1..(Len(Records) - 1) : Records[i].id < lastOp.val

\* the request's task is inside FlatIndex::append or FlatIndex::search
InStore(p) ==
    pc[p] \in {"a_check", "a_read", "a_write", "a_rest", "a_create", "a_bump",
               "s_check", "s_open", "s_scan"}

\* C3: a request is inside append or search only while it holds the index
\* mutex, and at most one request is inside a store operation at a time.
C3_OneStoreOperation ==
    /\ \A p \in Requests : InStore(p) => indexLock = p
    /\ Cardinality({p \in Requests : InStore(p)}) <= 1

\* an append is half way through its record while a search and nothing
\* else waits for the index mutex
C3_Witness ==
    \E p, q \in Requests :
        /\ pc[p] = "a_rest"
        /\ pc[q] = "gd_index_lock"

\* the request's append is between reading the counter and having written it
InAppendSteps(p) == pc[p] \in {"a_read", "a_write", "a_rest", "a_create", "a_bump"}

\* C4: no two appends of concurrent create_data requests interleave their
\* read-counter, write-record and write-counter steps; the ids returned are
\* pairwise distinct, and the records of the index file carry 1, 2, 3, ...
\* in file order.
C4_DistinctIds ==
    /\ \A p, q \in Requests : (InAppendSteps(p) /\ InAppendSteps(q)) => p = q
    /\ \A i, j \in 1..Len(retIds) : i # j => retIds[i] # retIds[j]
    /\ LET recs == Records
       IN  \A i \in 1..Len(recs) : recs[i].id = i

\* two create_data requests in flight at once have both got their ids
C4_Witness ==
    \E p, q \in Requests :
        /\ pc[p] = "cd_jsonl"
        /\ pc[q] = "cd_unlock"
        /\ loc[q].res.ok
        /\ Len(retIds) >= 2
        /\ Len(Records) >= 2

\* C5: whenever a search is reading the index file, the bytes after the
\* header are a whole number of records.
C5_WholeRecords ==
    \A p \in Requests :
        pc[p] = "s_scan" =>
            /\ Len(index.bytes) >= HeaderLen
            /\ (Len(index.bytes) - HeaderLen) % RecordLen(handle.dim) = 0

\* a search has read a record while a create_data request waits to append
C5_Witness ==
    \E p, q \in Requests :
        /\ pc[p] = "s_scan"
        /\ loc[p].pos > HeaderLen
        /\ pc[q] = "cd_index_lock"

\* the step is a call of open_or_create (the direct caller records its
\* result and the requested dim in lastOp)
IsOpenStep ==
    /\ pc[Client] = "idle"
    /\ pc'[Client] = "idle"
    /\ lastOp'.op \in {"create", "open", "rebuild"}
    /\ envOps' = envOps
    /\ crashLog' = crashLog

\* the three checks of the header in the index file, for a requested dim
MagicMatches == SubSeq(index.bytes, 1, 4) = MAGIC
VersionMatches == LEValue(SubSeq(index.bytes, 5, 8)) = VERSION
DimMatches(dim) == LEValue(SubSeq(index.bytes, 9, 12)) = dim

\* C11: on an existing index file open_or_create reports the first failing
\* check of magic, version, dimension, each by its own error, and succeeds
\* only if all three match.
C11_HeaderErrors ==
    [][(IsOpenStep /\ index.exists /\ Len(index.bytes) >= HeaderLen) =>
          LET dim == lastOp'.val
          IN  /\ ~MagicMatches => (~lastOp'.ok /\ lastOp'.err = "bad index magic")
              /\ (MagicMatches /\ ~VersionMatches) =>
                     (~lastOp'.ok /\ lastOp'.err = "unsupported index version")
              /\ (MagicMatches /\ VersionMatches /\ ~DimMatches(dim)) =>
                     (~lastOp'.ok /\ lastOp'.err = "dim mismatch with existing index")
              /\ lastOp'.ok =>
                     (MagicMatches /\ VersionMatches /\ DimMatches(dim))]_vars

\* an open of a file with the right magic, another version and another
\* dimension has reported the version
C11_Witness ==
    /\ lastOp.op = "open"
    /\ ~lastOp.ok
    /\ lastOp.err = "unsupported index version"
    /\ MagicMatches
    /\ ~DimMatches(lastOp.val)

\* open_or_create refused the header
HeaderErrors ==
    {"bad index magic", "unsupported index version", "dim mismatch with existing index"}

\* C12: an open_or_create that fails header validation leaves the index
\* file and the sidecar as they were (a missing sidecar stays missing).
C12_NoRepair ==
    [][(IsOpenStep /\ ~lastOp'.ok /\ lastOp'.err \in HeaderErrors) =>
          (index' = index /\ meta' = meta)]_vars

\* an open of a file with a foreign magic tag and no sidecar has failed, and
\* there is still no sidecar
C12_Witness ==
    /\ lastOp.op = "open"
    /\ ~lastOp.ok
    /\ lastOp.err = "bad index magic"
    /\ SubSeq(index.bytes, 1, 4) = ForeignMagic
    /\ ~meta.exists

\* C17: the rebuild scan succeeds when the file ends on a record boundary and
\* fails when it ends inside a record, be it inside the id or inside the
\* vector.
C17_ScanTruncation ==
    lastOp.op = "rebuild" =>
        (lastOp.ok <=> (Len(index.bytes) - HeaderLen) % RecordLen(lastOp.val) = 0)

\* C13: an append of a vector whose length is not the store's dim fails with
\* the dimension error, adds no byte to the index file and leaves the
\* counter as it was.
C13_MismatchAppend ==
    [][(pc[Client] = "a_check" /\ Len(loc[Client].vec) # handle.dim) =>
          /\ pc'[Client] = "idle"
          /\ lastOp'.op = "append"
          /\ ~lastOp'.ok
          /\ lastOp'.err = "dimension mismatch"
          /\ index' = index
          /\ meta' = meta]_vars

\* an append of a vector of another length has failed on a store that holds a record
C13_Witness ==
    /\ lastOp.op = "append"
    /\ ~lastOp.ok
    /\ lastOp.err = "dimension mismatch"
    /\ Len(lastOp.vec) # handle.dim
    /\ Len(Records) >= 1

\* C14 as stated: a search with top_k = 0 returns an empty list without
\* error, whatever the query and the store.
C14_TopKZero ==
    (lastOp.op = "search" /\ lastOp.k = 0) => (lastOp.ok /\ lastOp.val = <<>>)

\* C14 amended: a search with top_k = 0 and a query of the store's dimension
\* returns an empty list without error, whatever the store holds.
C14_TopKZeroValidQuery ==
    (lastOp.op = "search" /\ lastOp.k = 0 /\ Len(lastOp.vec) = handle.dim) =>
        (lastOp.ok /\ lastOp.val = <<>>)

\* a search with top_k = 0 on a store that holds records has returned
C14_Witness ==
    /\ lastOp.op = "search"
    /\ lastOp.k = 0
    /\ Len(lastOp.vec) = handle.dim
    /\ lastOp.ok
    /\ Len(Records) >= 2

IsPrefix(a, b) == Len(a) <= Len(b) /\ SubSeq(b, 1, Len(a)) = a

\* C15: every step on an existing index file keeps its content as a prefix of
\* the new content; the record's write adds exactly 8 + 4 * dim bytes, and no
\* other step of open_or_create, append or search changes the file.
C15_AppendOnly ==
    [][index.exists =>
          /\ index'.exists
          /\ IsPrefix(index.bytes, index'.bytes)
          /\ IF pc[Client] = "a_write"
             THEN Len(index'.bytes) = Len(index.bytes) + 8 + 4 * handle.dim
             ELSE index' = index]_vars

\* a third record has been appended after a reopen of the store
C15_Witness ==
    /\ Did("append")
    /\ lastOp.prev = "open"
    /\ Len(Records) >= 3

\* the dimension in the header of the index file, and its records read with it
FileDim == LEValue(SubSeq(index.bytes, 9, 12))
FileRecords == FullScan(From(index.bytes, HeaderLen), FileDim)

\* the direct caller is inside append
AppendInProgress ==
    pc[Client] \in {"a_check", "a_read", "a_write", "a_rest", "a_create", "a_bump"}

\* C16: without crash or I/O failure, whenever no append is in progress the
\* counter is the number of records plus one and the record at position i
\* carries the id i.
C16_DenseIds ==
    (index.exists /\ ~AppendInProgress) =>
        LET recs == FileRecords
        IN  /\ read_next_id(meta).ok
            /\ NextId = Len(recs) + 1
            /\ \A i \in 1..Len(recs) : recs[i].id = i

\* the store holds two records or more, is closed and no call is in progress
C16_Witness ==
    /\ index.exists
    /\ pc[Client] = "idle"
    /\ ~handle.open
    /\ Len(FileRecords) >= 2
    /\ NextId = Len(FileRecords) + 1

\* every crash so far hit append before the record's write
CrashedBeforeWrite ==
    /\ crashLog # <<>>
    /\ \A i \in 1..Len(crashLog) : crashLog[i].pc \in {"a_check", "a_read", "a_write"}

\* the counter and the ids of the records agree
CounterInSync ==
    LET recs == FileRecords
    IN  /\ read_next_id(meta).ok
        /\ NextId = Len(recs) + 1
        /\ \A i \in 1..Len(recs) : recs[i].id = i

\* C18 as stated: after a crash inside append before the record reached the
\* file, the counter and the stored records are as before, and every later
\* append returns an id larger than the one the crashed append had read.
C18_IdSkipped ==
    CrashedBeforeWrite =>
        /\ (index.exists /\ ~AppendInProgress) => CounterInSync
        /\ Did("append") =>
              \A i \in 1..Len(crashLog) :
                  crashLog[i].id # 0 => lastOp.val > crashLog[i].id

\* C18 amended: after a crash inside append before the record reached the
\* file, no stored byte has changed, the counter still is the number of
\* records plus one, and the next append returns that id again: the id the
\* crashed append had read is reused, none is skipped.  (Every step keeps
\* the file's content as a prefix; the state each step starts from has the
\* counter in sync, and every reachable state has a step: open_or_create
\* with another dim, or the next step of the call in progress.)
C18_LostAppendOnly ==
    [][/\ index.exists => (index'.exists /\ IsPrefix(index.bytes, index'.bytes))
       /\ CrashedBeforeWrite =>
             /\ (index.exists /\ ~AppendInProgress) => CounterInSync
             /\ Did("append") => lastOp.val = Len(FileRecords)]_vars

\* the append after a crash that had read an id has returned that id
C18_Witness ==
    /\ Len(crashLog) = 1
    /\ crashLog[1].pc = "a_write"
    /\ Did("append")
    /\ lastOp.val = crashLog[1].id
    /\ Len(FileRecords) >= 2

\* C19: whenever the sidecar can be observed between calls, also after a
\* crash inside write_next_id, it holds one whole 8-byte value that an append
\* can read.
C19_SidecarWhole ==
    (meta.exists /\ pc[Client] = "idle") =>
        /\ Len(meta.bytes) = 8
        /\ read_next_id(meta).ok

\* every component of the vector is 0.0
IsZeroVec(v) == \A i \in 1..Len(v) : v[i] = Num(0)

\* C20: a search with a query of the store's dimension never fails because
\* of a zero norm, and every hit whose stored vector is all zero, or whose
\* query is, carries the distance 1.0 exactly.
C20_ZeroNorm ==
    (lastOp.op = "search" /\ lastOp.k > 0 /\ Len(lastOp.vec) = handle.dim) =>
        /\ lastOp.ok
        /\ LET recs == Records
           IN  \A h \in 1..Len(lastOp.val) : \A j \in 1..Len(recs) :
                  (/\ recs[j].id = lastOp.val[h].id
                   /\ (IsZeroVec(recs[j].vec) \/ IsZeroVec(lastOp.vec)))
                      => lastOp.val[h].dist = Dist(One)

\* an all-zero query has met an all-zero record and another one
C20_Witness ==
    /\ Did("search")
    /\ IsZeroVec(lastOp.vec)
    /\ Len(lastOp.val) = 2
    /\ \E j \in 1..Len(Records) :
          IsZeroVec(Records[j].vec) /\ Records[j].id = lastOp.val[1].id
    /\ \E j \in 1..Len(Records) :
          ~IsZeroVec(Records[j].vec) /\ Records[j].id = lastOp.val[2].id

\* C21: append reads the counter, writes the record, then writes the counter.
\* In every state, also inside an append and after a crash at any step, a
\* readable counter is at most the number of whole records plus one; the
\* record is written while the counter still holds the id read at the start,
\* it carries that id, and that id is what append returns, with the counter
\* one above it.  (The state part speaks of the state each step starts
\* from; every reachable state has a step.)
C21_AppendOrder ==
    [][/\ (index.exists /\ read_next_id(meta).ok) =>
             NextId <= NumRecords(index.bytes, FileDim) + 1
       /\ (pc[Client] = "a_write" /\ pc'[Client] = "a_create") =>
             /\ read_next_id(meta) = Ok(loc[Client].id)
             /\ meta' = meta
             /\ Len(index'.bytes) = Len(index.bytes) + RecordLen(handle.dim)
             /\ SubSeq(index'.bytes, Len(index.bytes) + 1, Len(index.bytes) + 8)
                   = write_u64(loc[Client].id)
       /\ (pc[Client] = "a_create" /\ pc'[Client] = "a_bump") => index' = index
       /\ (pc[Client] = "a_bump" /\ pc'[Client] = "idle" /\ lastOp'.op = "append") =>
             /\ lastOp'.ok
             /\ lastOp'.val = loc[Client].id
             /\ index' = index
             /\ read_next_id(meta') = Ok(loc[Client].id + 1)]_vars

\* after a crash between the record's flush and the counter's write, the
\* store was reopened and an append has returned: the counter is behind
C21_Witness ==
    /\ Len(crashLog) = 1
    /\ crashLog[1].pc = "a_create"
    /\ Did("append")
    /\ NextId < NumRecords(index.bytes, FileDim) + 1

\* the entries of a list of hits
Entries(R) == {R[i] : i \in 1..Len(R)}

\* best became best2 by the rule of the claim: nothing changed, or one entry
\* came in, either because fewer than top_k were kept or because its
\* distance is strictly less than the worst kept one, which then left
IsBestSetStep(b, b2, top_k) ==
    \/ b2 = b
    \/ \E e \in Entries(b2) \ Entries(b) :
          \/ Len(b) < top_k /\ Entries(b2) = Entries(b) \cup {e}
                            /\ Len(b2) = Len(b) + 1
          \/ /\ Len(b) = top_k
             /\ DistLt(e.dist, b[Len(b)].dist)
             /\ Entries(b2) = (Entries(b) \ {b[Len(b)]}) \cup {e}
             /\ Len(b2) = Len(b)

\* C22: during the scan of a search the best-set has at most top_k entries
\* and is in ascending order of distance after every record, and a record
\* enters it only while it has fewer than top_k entries or with a distance
\* strictly less than the worst kept one, which alone is evicted; the
\* search returns the best-set.
C22_BestSet ==
    [][pc[Client] = "s_scan" =>
          LET b == loc[Client].best
              k == loc[Client].k
          IN  /\ Len(b) <= k
              /\ IsAscending(b)
              /\ pc'[Client] = "s_scan" => IsBestSetStep(b, loc'[Client].best, k)
              /\ (pc'[Client] = "idle" /\ lastOp'.ok) => lastOp'.val = b]_vars

\* C22 where every distance is a number
C22_BestSetNumeric ==
    [][(pc[Client] = "s_scan" /\ AllNumeric(loc[Client].vec)) =>
          LET b == loc[Client].best
              k == loc[Client].k
          IN  /\ Len(b) <= k
              /\ IsAscending(b)
              /\ pc'[Client] = "s_scan" => IsBestSetStep(b, loc'[Client].best, k)
              /\ (pc'[Client] = "idle" /\ lastOp'.ok) => lastOp'.val = b]_vars

(***************************************************************************)
(* Reading whatever files are found: open_or_create, close and search,     *)
(* with no append; the index file may vanish under the open store.         *)
(***************************************************************************)
\* the index file removed from outside under an open store
RemoveIndex ==
    /\ pc[Client] = "idle"
    /\ handle.open
    /\ index.exists
    /\ envOps < MaxEnvOps
    /\ index' = NoFile
    /\ envOps' = envOps + 1
    /\ lastOp' = [NoOp EXCEPT !.op = "remove"]
    /\ UNCHANGED <<meta, jsonl, handle, embedderLock, indexLock, pc, loc, retIds,
                   crashLog>>

NextRead ==
    \/ \E d \in Dims : OpenOrCreate(d)
    \/ Close
    \/ \E d \in Dims, k \in 0..MaxTopK : CallSearch(FoundVec(d), k)
    \/ SearchSteps(Client)
    \/ RemoveIndex

SpecRead == InitFiles /\ [][NextRead]_vars

\* C23: on every index file, also one that ends inside a record, a search
\* with a query of the store's dimension and top_k > 0 succeeds exactly when
\* scan_next_id does, and then scan_next_id's result minus one is the number
\* of records the search visited: the length of its result when top_k is
\* at least that number.
C23_ScanLikeSearch ==
    (/\ index.exists
     /\ lastOp.op = "search" /\ lastOp.k > 0 /\ Len(lastOp.vec) = handle.dim) =>
        LET s == scan_next_id(index.bytes, handle.dim)
        IN  /\ s.ok <=> lastOp.ok
            /\ (lastOp.ok /\ lastOp.k >= s.val - 1) => Len(lastOp.val) = s.val - 1

\* a search has succeeded on a file that ends inside the id of a record
C23_Witness ==
    /\ Did("search")
    /\ Len(lastOp.val) >= 1
    /\ (Len(index.bytes) - HeaderLen) % RecordLen(handle.dim) \in 1..7

\* a search has failed on a file that ends inside the vector of a record
C23_WitnessCut ==
    /\ lastOp.op = "search"
    /\ ~lastOp.ok
    /\ lastOp.err = "UnexpectedEof"
    /\ (Len(index.bytes) - HeaderLen) % RecordLen(handle.dim) >= 8

\* C24: a search with a query whose length is not the store's dim fails
\* with the dimension error whatever top_k is, 0 included, at the check
\* itself: before the top_k = 0 shortcut and without opening the index file.
C24_DimCheckFirst ==
    [][(pc[Client] = "s_check" /\ Len(loc[Client].vec) # handle.dim) =>
          /\ pc'[Client] = "idle"
          /\ lastOp'.op = "search"
          /\ ~lastOp'.ok
          /\ lastOp'.err = "dimension mismatch"
          /\ lastOp'.k = loc[Client].k]_vars

\* a search with top_k = 0 and a query of another length has failed with
\* the dimension error on a store whose index file is gone
C24_Witness ==
    /\ lastOp.op = "search"
    /\ ~lastOp.ok
    /\ lastOp.err = "dimension mismatch"
    /\ lastOp.k = 0
    /\ Len(lastOp.vec) # handle.dim
    /\ ~index.exists

(***************************************************************************)
(* An I/O failure inside append: each `?` of flat_index.rs 92-108 returns  *)
(* the error to the caller with what the earlier steps did left in place.  *)
(***************************************************************************)
\* read_next_id(..)?: the sidecar cannot be opened or read
AppendReadFails(p) ==
    /\ pc[p] = "a_read"
    /\ Return(p, Err("io error"))
    /\ UNCHANGED <<index, meta>>

\* OpenOptions::open(..)? or w.flush()?: no byte of the record is written
AppendWriteFails(p) ==
    /\ pc[p] = "a_write"
    /\ Return(p, Err("io error"))
    /\ UNCHANGED <<index, meta>>

\* write_next_id(..)?: File::create fails after the record's flush
BumpCreateFails(p) ==
    /\ pc[p] = "a_create"
    /\ Return(p, Err("io error"))
    /\ UNCHANGED <<index, meta>>

\* write_next_id(..)?: write_u64 or flush fails after File::create
BumpWriteFails(p) ==
    /\ pc[p] = "a_bump"
    /\ Return(p, Err("io error"))
    /\ UNCHANGED <<index, meta>>

AppendIoError(p) ==
    /\ envOps < MaxEnvOps
    /\ envOps' = envOps + 1
    /\ \/ AppendReadFails(p)
       \/ AppendWriteFails(p)
       \/ BumpCreateFails(p)
       \/ BumpWriteFails(p)
    /\ UNCHANGED <<jsonl, handle, embedderLock, indexLock, crashLog>>

NextIo ==
    \/ \E d \in Dims : OpenOrCreate(d)
    \/ Close
    \/ \E d \in Dims : CallAppend(FoundVec(d))
    \/ AppendSteps(Client)
    \/ AppendIoError(Client)

SpecIo == Init /\ [][NextIo]_vars

\* the last append returned an I/O error
AppendFailed == lastOp.op = "append" /\ ~lastOp.ok /\ lastOp.err = "io error"

\* C25: an append that returns an I/O error has added no record and has
\* left the counter at its value, so the counter and the records still agree
\* (counter = records + 1, record i carries id i), and after a later
\* successful append no two records carry the same id.
C25_FailedAppendAtomic ==
    /\ AppendFailed => CounterInSync
    /\ (envOps > 0 /\ Did("append")) =>
          LET recs == FileRecords
          IN  \A i, j \in 1..Len(recs) : i < j => recs[i].id < recs[j].id

\* C26: reads do not mutate the store.  No step of a search, successful or
\* failing, changes the index file or the sidecar; a successful
\* open_or_create on an existing index file leaves the index file as it is,
\* leaves an existing sidecar as it is and creates the sidecar when it is
\* missing; opened again at once, it succeeds and changes nothing.
C26_ReadsKeepStore ==
    [][/\ pc[Client] \in {"s_check", "s_open", "s_scan"} =>
             (index' = index /\ meta' = meta)
       /\ (IsOpenStep /\ index.exists /\ lastOp'.ok) =>
             /\ index' = index
             /\ meta.exists => meta' = meta
             /\ meta'.exists
             /\ LET again == open_or_create(index', meta', lastOp'.val)
                IN  /\ again.res.ok
                    /\ again.index = index'
                    /\ again.meta = meta']_vars

\* open_or_create has found an index file with records and no sidecar, and
\* has written the sidecar
C26_Witness ==
    /\ lastOp.op = "rebuild"
    /\ lastOp.ok
    /\ index.exists
    /\ NextId >= 2

\* a search has failed inside the file, on a store opened with its sidecar
C26_WitnessSearch ==
    /\ lastOp.op = "search"
    /\ ~lastOp.ok
    /\ lastOp.err = "UnexpectedEof"
    /\ NextId >= 2

(***************************************************************************)
(* The service with I/O failures inside append, and with the scheduling of *)
(* the runtime: a task that can take a step is polled in the end, and a    *)
(* task waiting for a mutex is woken when the mutex is released.           *)
(***************************************************************************)
\* the store of the service with one record and its line
InitSvcIo ==
    /\ index = File(Header(1) \o StoredRecords(<<FoundVec(1)>>, 1))
    /\ meta = write_next_id(2)
    /\ jsonl = [exists |-> TRUE, ids |-> <<1>>]
    /\ handle = [open |-> TRUE, dim |-> 1]
    /\ embedderLock = 0
    /\ indexLock = 0
    /\ pc = [p \in Procs |-> "idle"]
    /\ loc = [p \in Procs |-> NoLoc]
    /\ lastOp = NoOp
    /\ retIds = <<>>
    /\ crashLog = <<>>
    /\ envOps = 0

NextSvcIo ==
    \/ \E p \in Requests : create_data(p) \/ get_data(p)
    \/ \E p \in Requests : AppendIoError(p)

SpecSvcIo ==
    /\ InitSvcIo
    /\ [][NextSvcIo]_vars
    /\ \A p \in Requests : WF_vars(create_data(p) \/ get_data(p))

\* the handler of request p awaits a mutex
WaitsForLock(p) ==
    pc[p] \in {"cd_embed_lock", "cd_index_lock", "gd_embed_lock", "gd_index_lock"}

\* where the handler of request p holds the guard of the embedder, and of
\* the index
InEmbedderBlock(p) == pc[p] \in {"cd_embed", "gd_embed"}
InIndexBlock(p) == pc[p] \in {"cd_dim", "gd_dim", "cd_unlock", "gd_unlock"} \/ InStore(p)

\* C27, the state part: a handler holds the embedder's mutex only inside
\* its embedding block and the index's mutex only inside its store block,
\* never both, and none once it has returned.
C27_NoCrossHold ==
    \A p \in Requests :
        /\ ~(embedderLock = p /\ indexLock = p)
        /\ embedderLock = p <=> InEmbedderBlock(p)
        /\ indexLock = p <=> InIndexBlock(p)
        /\ pc[p] = "done" => (embedderLock # p /\ indexLock # p)

\* C27: no handler ever holds both mutexes, every return path, error
\* returns included, releases the one it holds, and so no interleaving of
\* the requests deadlocks: every request that waits for a mutex acquires it
\* in the end.
C27_LocksReleased ==
    /\ []C27_NoCrossHold
    /\ \A p \in Requests : WaitsForLock(p) ~> ~WaitsForLock(p)

\* one request has returned an error of append with both mutexes free
\* while another one waits for the index
C27_Witness ==
    \E p, q \in Requests :
        /\ p # q
        /\ pc[p] = "done"
        /\ envOps > 0
        /\ pc[q] = "cd_index_lock"
        /\ embedderLock = 0
        /\ indexLock = 0

\* every id of a line of the JSONL file is the id of a record of the index
\* file, and no more lines were added than appends have succeeded
C28_LinesHaveRecords ==
    LET recs == Records
    IN  /\ \A i \in 1..Len(jsonl.ids) : \E j \in 1..Len(recs) : recs[j].id = jsonl.ids[i]
        /\ Len(jsonl.ids) <= 1 + Len(retIds)

====
